---- MODULE Spec2Model ----
(***************************************************************************)
(* The pack-distribution optimizer of temo927/pack-optimizer:              *)
(* calculator.Compute (backend/internal/app/calculator/service.go).        *)
(*                                                                         *)
(* Compute receives a Go slice.  A slice is a view (pointer, length) on a  *)
(* backing array, so the model keeps the backing arrays in `heap` and each *)
(* call's view in its own record.  A caller makes up to three calls:       *)
(*   call 1  with its slice `raw`,                                         *)
(*   call 2  with the very same slice (same backing array) again,          *)
(*   call 3  with a freshly allocated slice: a copy of the original        *)
(*           sequence, or its normal form (positive values, ascending).    *)
(* Under Spec the calls run one after the other; under SpecConc calls 1    *)
(* and 2 run concurrently (two goroutines given the same slice).           *)
(***************************************************************************)
EXTENDS Integers, Sequences, FiniteSets, TLC

\* Bounds of the inputs explored under Spec.
MaxLen == 3
MaxSize == 3
MaxAmount == 4

\* Bounds of the inputs explored under SpecConc.
ConcMaxLen == 2
ConcMaxSize == 3
ConcMaxAmount == 2

\* service.go:60  const inf = int(^uint(0) >> 1) / 2, on a build whose int
\* has 32 bits (TLC's integers have 32 bits): (2^31 - 1) \div 2.
inf == 1073741823

Procs == 1..3

VARIABLES
    amount,   \* the amount every call is given
    raw,      \* the caller's sequence as it was before the first call
    fresh,    \* the sequence call 3 is given (<<>> until call 3 starts)
    heap,     \* heap[a]: the backing array a (1: the caller's, 2: call 3's)
    call,     \* call[p]: the activation record of call p
    rows,     \* the table pack_sets, in the order of its versions
    serial,   \* the last value the BIGSERIAL of pack_sets.version handed out
    cache,    \* the Redis keys "packlist:v1:<ver>": cache[ver] is the value
    errs,     \* errs[e]: the keys of the Details map of the shared APIError e
    req,      \* req[c]: the request (or service call) client c is making
    acked,    \* the highest version whose ReplaceActive has returned
    faults,   \* how many more database or cache operations may fail
    cb,       \* the CircuitBreaker
    now,      \* what time.Now() returns
    exec,     \* the call of CircuitBreaker.Execute in progress, or the last one
    retry     \* the call of ConnectPostgresWithRetry in progress, or the last one

calcVars == <<amount, raw, fresh, heap, call>>
storeVars == <<rows, serial, cache, errs, req, acked, faults>>
platVars == <<cb, now, exec, retry>>
vars == <<amount, raw, fresh, heap, call, rows, serial, cache, errs, req, acked,
          faults, cb, now, exec, retry>>

----------------------------------------------------------------------------
\* Helpers on sequences and sets.

SeqsOver(S, n) == UNION {[1..k -> S] : k \in 0..n}

Range(f) == {f[x] : x \in DOMAIN f}

Min(S) == CHOOSE x \in S : \A y \in S : x <= y

\* The ascending sequence of a finite set of integers.
RECURSIVE Ascending(_)
Ascending(S) == IF S = {} THEN <<>> ELSE <<Min(S)>> \o Ascending(S \ {Min(S)})

----------------------------------------------------------------------------
\* Result (service.go:14-18) and the two ways a call ends.

EmptyCounts == [s \in {} |-> 0]

Result(items, packs, counts) ==
    [TotalItems |-> items, TotalPacks |-> packs, Counts |-> counts]

ZeroResult == Result(0, 0, EmptyCounts)

\* Mutant of ServiceCompute: the overage taken the other way round.
ServiceComputeShortfall(a, res) ==
    [Amount |-> a, TotalItems |-> res.TotalItems, Overage |-> a - res.TotalItems,
     TotalPacks |-> res.TotalPacks, Breakdown |-> res.Counts, err |-> "nil"]

\* service.go:142-154  Service.Compute, the caller-facing wrapper: what it
\* builds from the Result that Compute returned, with its error.
ServiceCompute(a, res) ==
    [Amount |-> a, TotalItems |-> res.TotalItems, Overage |-> res.TotalItems - a,
     TotalPacks |-> res.TotalPacks, Breakdown |-> res.Counts, err |-> "nil"]

\* The record of a call that has not started.  reply holds what the wrapper
\* returned: nothing yet, or one CalculationResult with its error.
Idle ==
    [pc |-> "idle", arr |-> 0, n |-> 0, given |-> <<>>, i |-> 0, j |-> 0,
     unique |-> {}, todo |-> {}, len |-> 0, maxS |-> 0, targetUpper |-> 0,
     dp |-> <<>>, prev |-> <<>>, t |-> 0, bestT |-> 0, iters |-> 0,
     counts |-> EmptyCounts, exit |-> "", res |-> ZeroResult, reply |-> <<>>]

\* Call p entered with the slice (array a, length n).
Entered(a, n, content) ==
    [Idle EXCEPT !.pc = "entry", !.arr = a, !.n = n, !.given = content]

\* What a finished call leaves: how it ended and what it returned.  The
\* locals (table, trace, counters) are discarded on return.  The wrapper
\* (service.go:143-153) returns what it builds from Compute's Result; a
\* panic in Compute unwinds through it and it returns nothing.
Finished(c, how, r) ==
    [Idle EXCEPT !.pc = IF how = "panic" THEN "panic" ELSE "done",
                 !.arr = c.arr, !.n = c.n, !.given = c.given,
                 !.bestT = c.bestT, !.iters = c.iters,
                 !.exit = how, !.res = r,
                 !.reply = IF how = "panic" THEN <<>>
                           ELSE <<ServiceCompute(amount, r)>>]

----------------------------------------------------------------------------
\* The pieces of Compute that are pure.

\* service.go:44  if s > 0
IsValidSize(s) == s > 0

\* Mutant of Less: a comparison that never orders, as if the slice were
\* left in the map's iteration order.
LessNever(a, b) == FALSE

\* sort.Ints (service.go:52): the comparison of its insertion sort.
Less(a, b) == a < b

\* Mutant of TargetUpper: a ceiling one cell short.
TargetUpperShort(a, m) == a + m - 2

\* service.go:57  targetUpper := amount + maxS - 1
TargetUpper(a, m) == a + m - 1

\* Mutant of InitDp: no base case, every cell starts unreachable.
InitDpNoBase(upper) == [k \in 0..upper |-> inf]

\* service.go:61-71  dp and prev as allocated and initialized: make() zeroes
\* both, the loop sets cells 1..targetUpper, dp[0] = 0.
InitDp(upper) == [k \in 0..upper |-> IF k = 0 THEN 0 ELSE inf]
InitPrev(upper) == [k \in 0..upper |-> IF k = 0 THEN 0 ELSE 0 - 1]

\* Mutant of Improves: a size that ties with the best so far replaces it.
ImprovesOrTies(cand, best) == cand <= best

\* Mutant of Improves: the first size that fits is kept, never improved on.
ImprovesFirstOnly(cand, best) == best = inf

\* service.go:84  if dp[t-s]+1 < best
Improves(cand, best) == cand < best

\* service.go:75-89  the inner loop over the sizes, from position k on.
RECURSIVE TrySizes(_, _, _, _, _)
TrySizes(dp, sizes, t, k, acc) ==
    IF k > Len(sizes) THEN acc
    ELSE LET s == sizes[k]
             hit == t >= s /\ dp[t - s] # inf /\ Improves(dp[t - s] + 1, acc.best)
         IN TrySizes(dp, sizes, t, k + 1,
                     IF hit THEN [best |-> dp[t - s] + 1, bestS |-> s] ELSE acc)

\* Mutant of FirstReachable: the scan starts one cell above the amount.
FirstReachableAbove(dp, a, upper) ==
    LET hits == {t \in (a + 1)..upper : dp[t] # inf}
    IN IF hits = {} THEN 0 - 1 ELSE CHOOSE x \in hits : \A y \in hits : x <= y

\* Mutant of FirstReachable: the scan keeps the last reachable t (no break).
FirstReachableLast(dp, a, upper) ==
    LET hits == {t \in a..upper : dp[t] # inf}
    IN IF hits = {} THEN 0 - 1 ELSE CHOOSE x \in hits : \A y \in hits : x >= y

\* service.go:97-103  the first t in amount..targetUpper with dp[t] # inf,
\* -1 when there is none.
FirstReachable(dp, a, upper) ==
    LET hits == {t \in a..upper : dp[t] # inf}
    IN IF hits = {} THEN 0 - 1 ELSE Min(hits)

\* Mutant of Increment: the size is entered once and never counted again.
IncrementOnce(counts, s) ==
    IF s \in DOMAIN counts THEN counts ELSE counts @@ (s :> 1)

\* Mutant of Increment: counts[s] = 1 in place of counts[s]++.
IncrementSetsOne(counts, s) ==
    [x \in DOMAIN counts \cup {s} |-> IF x = s THEN 1 ELSE counts[x]]

\* service.go:117  counts[s]++
Increment(counts, s) ==
    IF s \in DOMAIN counts THEN [counts EXCEPT ![s] = @ + 1]
    ELSE counts @@ (s :> 1)

\* service.go:122-125  totalPacks: the sum of the counts.
RECURSIVE SumCounts(_)
SumCounts(counts) ==
    IF DOMAIN counts = {} THEN 0
    ELSE LET s == Min(DOMAIN counts)
         IN counts[s] + SumCounts([x \in DOMAIN counts \ {s} |-> counts[x]])

----------------------------------------------------------------------------
\* The steps of a call p.  h is the backing array of its slice.

\* service.go:37-39
Enter(p) ==
    LET c == call[p] IN
    /\ c.pc = "entry"
    /\ call' = [call EXCEPT ![p] =
                 IF amount <= 0 \/ c.n = 0
                 THEN Finished(c, "degenerate", ZeroResult)
                 ELSE [c EXCEPT !.pc = "range", !.i = 1]]
    /\ UNCHANGED <<amount, raw, fresh, heap, storeVars, platVars>>

\* service.go:42-48  one iteration of `for _, s := range sizes`: the range
\* fixed the length n at entry and reads element i now.  After the last
\* iteration sizes = sizes[:0]: length 0, same backing array.
RangeSizes(p) ==
    LET c == call[p]
        s == heap[c.arr][c.i]
        u == IF IsValidSize(s) THEN c.unique \cup {s} ELSE c.unique
    IN
    /\ c.pc = "range"
    /\ call' = [call EXCEPT ![p] =
                 IF c.i < c.n
                 THEN [c EXCEPT !.unique = u, !.i = c.i + 1]
                 ELSE [c EXCEPT !.unique = u, !.i = 0, !.todo = u, !.len = 0,
                                !.pc = "append"]]
    /\ UNCHANGED <<amount, raw, fresh, heap, storeVars, platVars>>

\* service.go:49-51  one iteration of `for s := range unique`: Go iterates a
\* map in an unspecified order, so any key not yet visited may come next.
\* len(unique) <= n <= cap(sizes): append never reallocates and writes into
\* the backing array the caller passed.
AppendUnique(p) ==
    LET c == call[p] IN
    /\ c.pc = "append"
    /\ c.todo # {}
    /\ \E s \in c.todo :
         /\ heap' = [heap EXCEPT ![c.arr][c.len + 1] = s]
         /\ call' = [call EXCEPT ![p] =
                      [c EXCEPT !.todo = c.todo \ {s}, !.len = c.len + 1]]
    /\ UNCHANGED <<amount, raw, fresh, storeVars, platVars>>

\* service.go:52  sort.Ints(sizes) begins (the map is exhausted).
SortBegin(p) ==
    LET c == call[p] IN
    /\ c.pc = "append"
    /\ c.todo = {}
    /\ call' = [call EXCEPT ![p] = [c EXCEPT !.pc = "sort", !.i = 2, !.j = 2]]
    /\ UNCHANGED <<amount, raw, fresh, heap, storeVars, platVars>>

\* service.go:52  sort.Ints on at most 12 elements is an insertion sort:
\*   for i := 1; i < n; i++ { for j := i; j > 0 && a[j] < a[j-1]; j-- { swap } }
\* (positions are 1-based here).  One step is one evaluation of the inner
\* loop's condition with the swap it guards.
SortInts(p) ==
    LET c == call[p]
        h == heap[c.arr]
    IN
    /\ c.pc = "sort"
    /\ IF c.i > c.len
       THEN /\ call' = [call EXCEPT ![p] = [c EXCEPT !.pc = "ceiling", !.i = 0, !.j = 0]]
            /\ heap' = heap
       ELSE IF c.j > 1 /\ Less(h[c.j], h[c.j - 1])
       THEN /\ heap' = [heap EXCEPT ![c.arr] =
                         [h EXCEPT ![c.j] = h[c.j - 1], ![c.j - 1] = h[c.j]]]
            /\ call' = [call EXCEPT ![p] = [c EXCEPT !.j = c.j - 1]]
       ELSE /\ call' = [call EXCEPT ![p] = [c EXCEPT !.i = c.i + 1, !.j = c.i + 1]]
            /\ heap' = heap
    /\ UNCHANGED <<amount, raw, fresh, storeVars, platVars>>

\* service.go:56-71  maxS := sizes[len(sizes)-1] panics (index out of range
\* [-1]) when no size was appended; otherwise the tables are allocated.
Ceiling(p) ==
    LET c == call[p]
        m == heap[c.arr][c.len]
        upper == TargetUpper(amount, m)
    IN
    /\ c.pc = "ceiling"
    /\ call' = [call EXCEPT ![p] =
                 IF c.len = 0
                 THEN Finished(c, "panic", ZeroResult)
                 ELSE [c EXCEPT !.pc = "build", !.maxS = m, !.targetUpper = upper,
                                !.dp = InitDp(upper), !.prev = InitPrev(upper),
                                !.t = 1]]
    /\ UNCHANGED <<amount, raw, fresh, heap, storeVars, platVars>>

\* service.go:74-93  one iteration of the outer loop: cell t of the table.
BuildTable(p) ==
    LET c == call[p]
        sizes == SubSeq(heap[c.arr], 1, c.len)
        cell == TrySizes(c.dp, sizes, c.t, 1, [best |-> inf, bestS |-> 0 - 1])
    IN
    /\ c.pc = "build"
    /\ call' = [call EXCEPT ![p] =
                 IF c.t <= c.targetUpper
                 THEN [c EXCEPT !.dp[c.t] = cell.best, !.prev[c.t] = cell.bestS,
                                !.t = c.t + 1]
                 ELSE [c EXCEPT !.pc = "select", !.t = 0]]
    /\ UNCHANGED <<amount, raw, fresh, heap, storeVars, platVars>>

\* service.go:95-111  the scan for bestT, and the return of the empty
\* Result when it finds nothing.
Select(p) ==
    LET c == call[p]
        b == FirstReachable(c.dp, amount, c.targetUpper)
    IN
    /\ c.pc = "select"
    /\ call' = [call EXCEPT ![p] =
                 IF b = 0 - 1
                 THEN Finished([c EXCEPT !.bestT = b], "nosolution", ZeroResult)
                 ELSE [c EXCEPT !.pc = "reconstruct", !.bestT = b, !.t = b,
                                !.counts = EmptyCounts, !.iters = 0]]
    /\ UNCHANGED <<amount, raw, fresh, heap, storeVars, platVars>>

\* service.go:112-131  one iteration of the backtracking loop; when the loop
\* ends (t = 0, or the break at s <= 0) the packs are summed and the Result
\* is returned.
Reconstruct(p) ==
    LET c == call[p] IN
    /\ c.pc = "reconstruct"
    /\ call' = [call EXCEPT ![p] =
                 IF c.t > 0 /\ c.prev[c.t] > 0
                 THEN [c EXCEPT !.counts = Increment(c.counts, c.prev[c.t]),
                                !.t = c.t - c.prev[c.t],
                                !.iters = c.iters + 1]
                 ELSE Finished(c, IF c.t > 0 THEN "break" ELSE "return",
                               Result(c.bestT, SumCounts(c.counts), c.counts))]
    /\ UNCHANGED <<amount, raw, fresh, heap, storeVars, platVars>>

Step(p) ==
    \/ Enter(p)
    \/ RangeSizes(p)
    \/ AppendUnique(p)
    \/ SortBegin(p)
    \/ SortInts(p)
    \/ Ceiling(p)
    \/ BuildTable(p)
    \/ Select(p)
    \/ Reconstruct(p)

----------------------------------------------------------------------------
\* The caller.

Ended(p) == call[p].pc \in {"done", "panic"}

\* The positive values of a sequence, and its normal form.
Positive(seq) == {x \in Range(seq) : x > 0}
NormalForm(seq) == Ascending(Positive(seq))

\* The caller passes its slice a second time: same array, same length.
CallAgain ==
    /\ Ended(1)
    /\ call[2].pc = "idle"
    /\ call' = [call EXCEPT ![2] = Entered(1, Len(raw), heap[1])]
    /\ UNCHANGED <<amount, raw, fresh, heap, storeVars, platVars>>

\* The caller passes a new slice holding the sequence arg.
CallWith(arg) ==
    /\ Ended(1)
    /\ Ended(2)
    /\ call[3].pc = "idle"
    /\ fresh' = arg
    /\ heap' = [heap EXCEPT ![2] = arg]
    /\ call' = [call EXCEPT ![3] = Entered(2, Len(arg), arg)]
    /\ UNCHANGED <<amount, raw, storeVars, platVars>>

CallCopy == CallWith(raw)

CallNormalForm == CallWith(NormalForm(raw))

----------------------------------------------------------------------------
\* Recovery of the external dependencies (platform/recovery.go): the circuit
\* breaker, and the connection to PostgreSQL with retries through it.
\* Durations and times are counted in ticks.

\* No more than MaxCalls calls of Execute are made, and the clock is followed
\* up to MaxTime.
MaxCalls == 8
MaxTime == 3

\* The breakers that are built: maxFailures in 0..MaxThreshold, resetTimeout
\* in 0..MaxTimeout.
MaxThreshold == 2
MaxTimeout == 2

\* The retry configurations: MaxAttempts in -1..MaxTries, InitialDelay in
\* 0..MaxInitialDelay, MaxDelay in 1..MaxMaxDelay.
MaxTries == 3
MaxInitialDelay == 1
MaxMaxDelay == 2

\* recovery.go:107  halfOpenRequests: 3
halfOpenRequests == 3

\* recovery.go:29  BackoffMultiplier: 2.0
BackoffMultiplier == 2

\* recovery.go:101-109  NewCircuitBreaker
NewCircuitBreaker(maxFailures, resetTimeout) ==
    [maxFailures |-> maxFailures, resetTimeout |-> resetTimeout,
     state |-> "Closed", failureCount |-> 0, lastFailureTime |-> 0,
     successCount |-> 0, halfOpenRequests |-> halfOpenRequests]

\* The record of a call of Execute.
\*   pc                 idle (no call yet), fn (fn is running), done
\*   calls              the calls made so far, this one included
\*   entry, since, scIn the breaker's state, lastFailureTime and successCount
\*                      when the call began
\*   at                 the time updateState read
\*   ran, fcRun, scRun  the breaker's state, failureCount and successCount
\*                      when fn was invoked ("" when it was not)
\*   err                what the call returned: nil, open (the breaker's
\*                      error), fn (fn's error); "" while it runs
\*   streakIn, streak   the calls just before this one, and up to this one,
\*                      whose fn was invoked and failed, with no other call
\*                      between them
\*   trials             the invocations of fn in HalfOpen since the breaker
\*                      last became HalfOpen
NoExec ==
    [pc |-> "idle", calls |-> 0, entry |-> "", since |-> 0, scIn |-> 0, at |-> 0,
     ran |-> "", fcRun |-> 0, scRun |-> 0, err |-> "", streakIn |-> 0,
     streak |-> 0, trials |-> 0]

\* An error value: its kind (nil, open, new, ping, ctx) and the invocation
\* of fn that returned it (0: none).
NoErr == [kind |-> "nil", n |-> 0]

\* The record of a call of ConnectPostgresWithRetry.
\*   pc            idle (no call), loop (at the loop's condition), fn (fn is
\*                 running), after (fn has returned), select, done
\*   MaxAttempts, MaxDelay   the RetryConfig
\*   attempt, delay, lastErr the locals of RetryWithBackoff
\*   fnErr         what the last invocation of fn returned
\*   results       what each invocation of fn returned, in order
\*   waits         how often the select statement was reached
\*   pool          the variable pool is not nil
\*   err           what RetryWithBackoff returned
\*   ret           what ConnectPostgresWithRetry returned (pool not nil, err)
NoRetry ==
    [pc |-> "idle", MaxAttempts |-> 0, MaxDelay |-> 0, attempt |-> 0, delay |-> 0,
     lastErr |-> NoErr, fnErr |-> NoErr, results |-> <<>>, waits |-> 0,
     pool |-> FALSE, err |-> NoErr, ret |-> [pool |-> FALSE, err |-> NoErr]]

\* No breaker in use, nothing connecting.
PlatIdle ==
    /\ cb = NewCircuitBreaker(0, 0)
    /\ now = 0
    /\ exec = NoExec
    /\ retry = NoRetry

\* Mutant of TimedOut: the timeout has to be exceeded.
TimedOutLater(elapsed, timeout) == elapsed > timeout

\* recovery.go:147  now.Sub(cb.lastFailureTime) >= cb.resetTimeout
TimedOut(elapsed, timeout) == elapsed >= timeout

\* Mutant of ShouldOpen: the circuit opens one failure early.
ShouldOpenEarly(failures, max) == failures + 1 >= max

\* recovery.go:156  cb.failureCount >= cb.maxFailures
ShouldOpen(failures, max) == failures >= max

\* Mutant of Recovered: one more success is asked for.
RecoveredLater(successes, wanted) == successes > wanted

\* recovery.go:120  cb.successCount >= cb.halfOpenRequests
Recovered(successes, wanted) == successes >= wanted

\* recovery.go:141-165  updateState at time t
UpdateState(b, t) ==
    IF b.state = "Open"
    THEN IF TimedOut(t - b.lastFailureTime, b.resetTimeout)
         THEN [b EXCEPT !.state = "HalfOpen", !.successCount = 0]
         ELSE b
    ELSE IF b.state = "Closed"
    THEN IF ShouldOpen(b.failureCount, b.maxFailures)
         THEN [b EXCEPT !.state = "Open", !.lastFailureTime = t]
         ELSE b
    ELSE b

\* recovery.go:118-126  case CircuitBreakerHalfOpen, before it falls through
Recover(b) ==
    IF b.state = "HalfOpen" /\ Recovered(b.successCount, b.halfOpenRequests)
    THEN [b EXCEPT !.state = "Closed", !.failureCount = 0, !.successCount = 0]
    ELSE b

\* recovery.go:168-177  recordFailure at time t
RecordFailure(b, t) ==
    [b EXCEPT !.failureCount = @ + 1, !.lastFailureTime = t,
              !.state = IF @ = "HalfOpen" THEN "Open" ELSE @]

\* recovery.go:180-187  recordSuccess
RecordSuccess(b) ==
    IF b.state = "HalfOpen"
    THEN [b EXCEPT !.successCount = @ + 1]
    ELSE [b EXCEPT !.failureCount = 0]

\* recovery.go:112-128  Execute up to the invocation of fn: updateState, then
\* the switch; in Open the call returns the breaker's error at once.
ExecuteEnters ==
    LET u == UpdateState(cb, now)
        b == Recover(u)
        open == u.state = "Open"
    IN
    /\ cb' = IF open THEN u ELSE b
    /\ exec' = [pc |-> IF open THEN "done" ELSE "fn",
                calls |-> exec.calls + 1,
                entry |-> cb.state, since |-> cb.lastFailureTime,
                scIn |-> cb.successCount, at |-> now,
                ran |-> IF open THEN "" ELSE b.state,
                fcRun |-> IF open THEN 0 ELSE b.failureCount,
                scRun |-> IF open THEN 0 ELSE b.successCount,
                err |-> IF open THEN "open" ELSE "",
                streakIn |-> exec.streak,
                streak |-> IF open THEN 0 ELSE exec.streak,
                trials |-> IF open \/ b.state # "HalfOpen" THEN 0
                           ELSE IF cb.state = "Open" THEN 1
                           ELSE exec.trials + 1]

\* recovery.go:128-134  fn has returned (ok: with nil): the outcome is
\* recorded and returned.
ExecuteReturns(ok) ==
    /\ cb' = IF ok THEN RecordSuccess(cb) ELSE RecordFailure(cb, now)
    /\ exec' = [exec EXCEPT !.pc = "done",
                            !.err = IF ok THEN "nil" ELSE "fn",
                            !.streak = IF ok THEN 0 ELSE exec.streak + 1]

\* A caller calls cb.Execute(fn).
Execute ==
    /\ retry.pc = "idle"
    /\ exec.pc \in {"idle", "done"}
    /\ exec.calls < MaxCalls
    /\ ExecuteEnters
    /\ UNCHANGED <<now, retry, calcVars, storeVars>>

\* Its fn returns, with nil or with an error.
FnReturns ==
    /\ retry.pc = "idle"
    /\ exec.pc = "fn"
    /\ \E ok \in BOOLEAN : ExecuteReturns(ok)
    /\ UNCHANGED <<now, retry, calcVars, storeVars>>

\* Time passes.
Tick ==
    /\ now < MaxTime
    /\ now' = now + 1
    /\ UNCHANGED <<cb, exec, retry, calcVars, storeVars>>

\* Mutant of LastAttempt: no attempt is taken for the last one.
LastAttemptNever(attempt, max) == FALSE

\* recovery.go:51  if attempt == config.MaxAttempts-1
LastAttempt(attempt, max) == attempt = max - 1

\* recovery.go:69-72  the next delay
Backoff(delay, max) ==
    IF delay * BackoffMultiplier > max THEN max ELSE delay * BackoffMultiplier

\* recovery.go:205-209  ConnectPostgresWithRetry returns: nil and the error,
\* or the pool and nil.
Returns(r, err) ==
    [r EXCEPT !.pc = "done", !.err = err,
              !.ret = IF err.kind # "nil" THEN [pool |-> FALSE, err |-> err]
                      ELSE [pool |-> r.pool, err |-> NoErr]]

\* recovery.go:39-40, 76, 195  the loop's condition: fn is invoked, which
\* calls cb.Execute, or the loop is over and lastErr is returned.  When the
\* breaker is open fn returns its error at once.
RetryLoop ==
    /\ retry.pc = "loop"
    /\ IF retry.attempt < retry.MaxAttempts
       THEN /\ ExecuteEnters
            /\ retry' = [retry EXCEPT
                   !.pc = IF exec'.pc = "done" THEN "after" ELSE "fn",
                   !.fnErr = IF exec'.pc = "done"
                             THEN [kind |-> "open", n |-> Len(retry.results) + 1]
                             ELSE NoErr,
                   !.results = IF exec'.pc = "done" THEN Append(@, "open") ELSE @]
       ELSE /\ retry' = Returns(retry, retry.lastErr)
            /\ UNCHANGED <<cb, exec>>
    /\ UNCHANGED <<now, calcVars, storeVars>>

\* recovery.go:195-202  the function Execute was given: pgxpool.New fails
\* (pool is nil), or it succeeds and Ping fails, or both succeed.
Connect ==
    /\ retry.pc = "fn"
    /\ exec.pc = "fn"
    /\ \E out \in {"nil", "new", "ping"} :
         /\ ExecuteReturns(out = "nil")
         /\ retry' = [retry EXCEPT
                !.pc = "after",
                !.pool = out # "new",
                !.fnErr = IF out = "nil" THEN NoErr
                          ELSE [kind |-> out, n |-> Len(retry.results) + 1],
                !.results = Append(@, out)]
    /\ UNCHANGED <<now, calcVars, storeVars>>

\* recovery.go:41-53  fn has returned: nil is returned at once; an error is
\* kept, and the last attempt leaves the loop.
RetryAfter ==
    /\ retry.pc = "after"
    /\ retry' = IF retry.fnErr.kind = "nil"
                THEN Returns(retry, NoErr)
                ELSE IF LastAttempt(retry.attempt, retry.MaxAttempts)
                THEN Returns([retry EXCEPT !.lastErr = retry.fnErr], retry.fnErr)
                ELSE [retry EXCEPT !.lastErr = retry.fnErr, !.pc = "select",
                                   !.waits = @ + 1]
    /\ UNCHANGED <<cb, now, exec, calcVars, storeVars>>

\* recovery.go:64-73  the select: the context is done and its error is
\* returned, or the delay passes and the next attempt begins.
RetrySelect ==
    /\ retry.pc = "select"
    /\ \/ /\ retry' = Returns(retry, [kind |-> "ctx", n |-> 0])
          /\ now' = now
       \/ /\ now + retry.delay <= MaxTime
          /\ now' = now + retry.delay
          /\ retry' = [retry EXCEPT !.delay = Backoff(@, retry.MaxDelay),
                                    !.attempt = @ + 1, !.pc = "loop"]
    /\ UNCHANGED <<cb, exec, calcVars, storeVars>>

----------------------------------------------------------------------------
\* The stored pack sizes: the repository over the table pack_sets
\* (adapters/postgres/repo.go) and the caching packs service in front of it
\* (platform/bootstrap.go, packsService).

\* At most MaxVersions rows are inserted.
MaxVersions == 2

\* The column sizes is INTEGER[] (Go int32) while the repository takes []int,
\* which is 64 bits wide on the builds that are deployed.  The model keeps
\* the relation at a smaller scale: the column's integers have Int32Bits
\* bits, the repository is given values beyond them.
Int32Bits == 16
Wrap == 2 ^ Int32Bits

\* The longest sequence a direct caller of the repository passes.
RepoMaxLen == 2

\* The clients: goroutines that make requests or service calls.
Clients == 1..2

\* Mutant of ToInt32: the conversion as if it kept every value.
ToInt32Wide(v) == v

\* repo.go:57  arr[i] = int32(v): the low Int32Bits bits, as a signed value.
ToInt32(v) ==
    LET m == v % Wrap
    IN IF m >= Wrap \div 2 THEN m - Wrap ELSE m

\* repo.go:43-54  normalize: the positive values, each once, ascending.
Normalize(sizes) == Ascending({s \in Range(sizes) : s > 0})

\* sort.Ints on a sequence that may hold a value several times.
RECURSIVE SortInts2(_)
SortInts2(seq) ==
    IF seq = <<>> THEN <<>>
    ELSE LET m == Min(Range(seq))
             k == Min({i \in 1..Len(seq) : seq[i] = m})
         IN <<m>> \o SortInts2(SubSeq(seq, 1, k - 1) \o SubSeq(seq, k + 1, Len(seq)))

\* repo.go:55-58  the int32 array that is inserted.
Stored(sizes) == [i \in 1..Len(Normalize(sizes)) |-> ToInt32(Normalize(sizes)[i])]

\* repo.go:59-64  the table after INSERT INTO pack_sets (sizes, created_at):
\* one more row, its version the next value of the BIGSERIAL.  given is not
\* a column: it remembers the sizes ReplaceActive was called with (each
\* positive value once, ascending, as Go's int).
Inserted(sizes) ==
    Append(rows, [version |-> serial + 1, sizes |-> Stored(sizes),
                  given |-> Normalize(sizes)])

\* Mutant of GetAllActiveOf: the oldest row in place of the latest.
GetAllActiveOldest(table) ==
    IF table = <<>> THEN <<>> ELSE SortInts2(table[1].sizes)

\* repo.go:22-39  SELECT sizes FROM pack_sets ORDER BY version DESC LIMIT 1,
\* the empty slice when there is no row, each int32 widened, sort.Ints.
GetAllActiveOf(table) ==
    IF table = <<>> THEN <<>> ELSE SortInts2(table[Len(table)].sizes)

\* repo.go:67-72  SELECT COALESCE(MAX(version),0) FROM pack_sets
CurrentVersionOf(table) ==
    IF table = <<>> THEN 0 ELSE table[Len(table)].version

\* bootstrap.go:146, 133-134  json.Marshal of the sizes and json.Unmarshal
\* of the cached bytes.
Marshal(sizes) == [json |-> sizes]
Unmarshal(b) == b.json

\* No HTTP response written.  keys are the detail keys the response carries,
\* own the ones the handler set while serving this request.
NoResp ==
    [status |-> 0, code |-> "", reason |-> "", keys |-> {}, own |-> {},
     sizes |-> <<>>]

\* The record of a client that is not making a request.
\*   kind               what is being done
\*   json, param, amount, arg   its input: whether the body decodes, the
\*                      URL parameter, the amount and the sizes of the body
\*   hpc                the handler's position, "" outside a handler
\*   op, sarg, pc       the service call in progress, its argument, its position
\*   ver, todo          GetActiveSizes' ver; the keys DeleteByPrefix scanned
\*   out, err           what the service (or repository) call returned
\*   curr, next         deletePack's locals
\*   calc               the calls of the calculator: <<amount, sizes>> each
\*   resp               the HTTP response
\*   floor, wrote, before, faulted  history: the value of acked when the
\*       service call began, the version the call inserted, the table
\*       before the call, whether a database or cache operation failed
NoReq ==
    [kind |-> "none", json |-> TRUE, param |-> "", amount |-> 0, arg |-> <<>>,
     hpc |-> "",
     op |-> "", sarg |-> <<>>, pc |-> "idle", ver |-> 0, todo |-> {},
     out |-> <<>>, err |-> FALSE, curr |-> <<>>, next |-> <<>>, calc |-> <<>>,
     resp |-> NoResp, floor |-> 0, wrote |-> 0, before |-> <<>>,
     faulted |-> FALSE]

\* Client c is free to begin something.
Free(c) == req[c].pc = "idle"

\* The shared APIError values whose Details the handlers write to
\* (errors.go:69-75).
ErrNames == {"INVALID_INPUT", "VALIDATION_FAILED", "DATABASE_ERROR",
             "CALCULATION_ERROR", "INTERNAL_ERROR"}

\* Nothing cached, no error answered yet, nobody calling.
Quiet ==
    /\ cache = [k \in {} |-> Marshal(<<>>)]
    /\ errs = [e \in ErrNames |-> {}]
    /\ req = [c \in Clients |-> NoReq]
    /\ acked = 0

\* Nothing stored and nothing going on.
StoreIdle ==
    /\ rows = <<>>
    /\ serial = 0
    /\ Quiet
    /\ faults = 0

\* The database and the cache are reached over the network: an operation
\* may fail, at most MaxFaults times in a run.
MaxFaults == 2

\* What an operation may do now: succeed, or fail if failures are left.
Oks == IF faults > 0 THEN BOOLEAN ELSE {TRUE}

\* The failures left after an operation.
Spent(ok) == IF ok THEN faults ELSE faults - 1

\* What client c did is over and its goroutine ends; the next request or
\* call is served by a new one.
Close(c) ==
    /\ req[c].pc = "done"
    /\ req' = [req EXCEPT ![c] = NoReq]
    /\ UNCHANGED <<rows, serial, cache, errs, acked, faults, calcVars, platVars>>

\* No call of the calculator in progress.
CalcIdle ==
    /\ amount = 0
    /\ raw = <<>>
    /\ fresh = <<>>
    /\ heap = [a \in 1..2 |-> <<>>]
    /\ call = [p \in Procs |-> Idle]

----------------------------------------------------------------------------
\* The repository called directly, one SQL statement per call.

RepoValues == {0, 1, 2, Wrap + 1}

\* repo.go:41-65  Repository.ReplaceActive
RepoReplaceActive(c) ==
    /\ Free(c)
    /\ serial < MaxVersions
    /\ \E sizes \in SeqsOver(RepoValues, RepoMaxLen), ok \in Oks :
         /\ faults' = Spent(ok)
         /\ rows' = IF ok THEN Inserted(sizes) ELSE rows
         /\ serial' = IF ok THEN serial + 1 ELSE serial
         /\ req' = [req EXCEPT ![c] =
                     [NoReq EXCEPT !.kind = "repo.ReplaceActive", !.arg = sizes,
                                   !.pc = "done", !.before = rows,
                                   !.out = IF ok THEN Normalize(sizes) ELSE <<>>,
                                   !.err = ~ok, !.faulted = ~ok,
                                   !.wrote = IF ok THEN serial + 1 ELSE 0]]
    /\ UNCHANGED <<cache, errs, acked, calcVars, platVars>>

\* repo.go:22-39  Repository.GetAllActive
RepoGetAllActive(c) ==
    /\ Free(c)
    /\ \E ok \in Oks :
         /\ faults' = Spent(ok)
         /\ req' = [req EXCEPT ![c] =
                  [NoReq EXCEPT !.kind = "repo.GetAllActive", !.pc = "done",
                                !.before = rows,
                                !.out = IF ok THEN GetAllActiveOf(rows) ELSE <<>>,
                                !.err = ~ok, !.faulted = ~ok]]
    /\ UNCHANGED <<rows, serial, cache, errs, acked, calcVars, platVars>>

\* repo.go:67-72  Repository.CurrentVersion
RepoCurrentVersion(c) ==
    /\ Free(c)
    /\ \E ok \in Oks :
         /\ faults' = Spent(ok)
         /\ req' = [req EXCEPT ![c] =
                  [NoReq EXCEPT !.kind = "repo.CurrentVersion", !.pc = "done",
                                !.before = rows,
                                !.ver = IF ok THEN CurrentVersionOf(rows) ELSE 0,
                                !.err = ~ok, !.faulted = ~ok]]
    /\ UNCHANGED <<rows, serial, cache, errs, acked, calcVars, platVars>>

InitRepo ==
    /\ CalcIdle
    /\ PlatIdle
    /\ rows = <<>> /\ serial = 0
    /\ Quiet
    /\ faults = MaxFaults

\* One caller: each call is a single statement, so the calls of several
\* callers interleave as the calls of one.
NextRepo ==
    \/ Close(1)
    \/ RepoReplaceActive(1)
    \/ RepoGetAllActive(1)
    \/ RepoCurrentVersion(1)

SpecRepo == InitRepo /\ [][NextRepo]_vars

----------------------------------------------------------------------------
\* The caching packs service (bootstrap.go:106-167).  Every repository and
\* cache operation is one step and may fail.

\* The requests that may still insert a row.
Pending ==
    Cardinality({c \in Clients :
        /\ req[c].kind \in {"ReplaceActive", "putPacks", "deletePack"}
        /\ req[c].pc # "done"
        /\ req[c].wrote = 0})

\* The service call returns to what called it: to the handler, or to the
\* client itself when it called the service directly.
Return(r, out, err) ==
    [r EXCEPT !.out = out, !.err = err, !.ver = 0, !.todo = {},
              !.pc = IF r.hpc = "" THEN "done" ELSE "svcdone"]

\* bootstrap.go:126  GetActiveSizes is entered.
BeginGet(r) ==
    [r EXCEPT !.op = "GetActiveSizes", !.sarg = <<>>, !.pc = "version",
              !.ver = 0, !.out = <<>>, !.err = FALSE, !.floor = acked]

\* bootstrap.go:155  ReplaceActive is entered.
BeginReplace(r, sizes) ==
    [r EXCEPT !.op = "ReplaceActive", !.sarg = sizes, !.pc = "insert",
              !.ver = 0, !.out = <<>>, !.err = FALSE]

\* bootstrap.go:128  ver, _ := p.repo.CurrentVersion(): the error is
\* dropped, and on an error ver is 0.
CurrentVersion(c) ==
    LET r == req[c] IN
    /\ r.pc = "version"
    /\ \E ok \in Oks :
         /\ faults' = Spent(ok)
         /\ req' = [req EXCEPT ![c] =
                  [r EXCEPT !.ver = IF ok THEN CurrentVersionOf(rows) ELSE 0,
                            !.faulted = r.faulted \/ ~ok,
                            !.pc = "cacheget"]]
    /\ UNCHANGED <<rows, serial, cache, errs, acked, calcVars, platVars>>

\* bootstrap.go:129-136  the key is "packlist:v1:" + ver; a value found under
\* it is returned.  A failing Get counts as a miss.
CacheGet(c) ==
    LET r == req[c] IN
    /\ r.pc = "cacheget"
    /\ \E ok \in Oks :
         /\ faults' = Spent(ok)
         /\ req' = [req EXCEPT ![c] =
                  IF ok /\ r.ver \in DOMAIN cache
                  THEN Return(r, Unmarshal(cache[r.ver]), FALSE)
                  ELSE [r EXCEPT !.pc = "repoget", !.faulted = r.faulted \/ ~ok]]
    /\ UNCHANGED <<rows, serial, cache, errs, acked, calcVars, platVars>>

\* bootstrap.go:139-142  sizes, err := p.repo.GetAllActive()
GetAllActive(c) ==
    LET r == req[c] IN
    /\ r.pc = "repoget"
    /\ \E ok \in Oks :
         /\ faults' = Spent(ok)
         /\ req' = [req EXCEPT ![c] =
                  IF ok
                  THEN [r EXCEPT !.out = GetAllActiveOf(rows), !.pc = "cacheset"]
                  ELSE Return([r EXCEPT !.faulted = TRUE], <<>>, TRUE)]
    /\ UNCHANGED <<rows, serial, cache, errs, acked, calcVars, platVars>>

\* bootstrap.go:145-149  the sizes are cached under the key (a failing Set
\* is ignored) and returned.
CacheSet(c) ==
    LET r == req[c] IN
    /\ r.pc = "cacheset"
    /\ \E ok \in Oks :
         /\ faults' = Spent(ok)
         /\ cache' = IF ok
                     THEN [k \in DOMAIN cache \cup {r.ver} |->
                              IF k = r.ver THEN Marshal(r.out) ELSE cache[k]]
                     ELSE cache
         /\ req' = [req EXCEPT ![c] =
                     Return([r EXCEPT !.faulted = r.faulted \/ ~ok], r.out, FALSE)]
    /\ UNCHANGED <<rows, serial, errs, acked, calcVars, platVars>>

\* bootstrap.go:157-160  out, err := p.repo.ReplaceActive(sizes)
Insert(c) ==
    LET r == req[c] IN
    /\ r.pc = "insert"
    /\ \E ok \in Oks :
         /\ faults' = Spent(ok)
         /\ rows' = IF ok THEN Inserted(r.sarg) ELSE rows
         /\ serial' = IF ok THEN serial + 1 ELSE serial
         /\ req' = [req EXCEPT ![c] =
                     IF ok
                     THEN [r EXCEPT !.out = Normalize(r.sarg), !.wrote = serial + 1,
                                    !.pc = "scan"]
                     ELSE Return([r EXCEPT !.faulted = TRUE], <<>>, TRUE)]
    /\ UNCHANGED <<cache, errs, acked, calcVars, platVars>>

\* bootstrap.go:163, cache.go:29-31  DeleteByPrefix("packlist:v1:") scans for
\* the keys; when the scan fails no key is deleted.
Scan(c) ==
    LET r == req[c] IN
    /\ r.pc = "scan"
    /\ \E ok \in Oks :
         /\ faults' = Spent(ok)
         /\ req' = [req EXCEPT ![c] =
                  [r EXCEPT !.todo = IF ok THEN DOMAIN cache ELSE {},
                            !.faulted = r.faulted \/ ~ok,
                            !.pc = "del"]]
    /\ UNCHANGED <<rows, serial, cache, errs, acked, calcVars, platVars>>

\* cache.go:31-37  one DEL per key found; a failing DEL leaves its key and
\* the loop goes on.  bootstrap.go:163-166: whatever DeleteByPrefix returns
\* is dropped, no key begins with "calc:v1:", and ReplaceActive returns.
Del(c) ==
    LET r == req[c] IN
    /\ r.pc = "del"
    /\ IF r.todo = {}
       THEN /\ req' = [req EXCEPT ![c] = Return(r, r.out, FALSE)]
            /\ acked' = IF r.wrote > acked THEN r.wrote ELSE acked
            /\ cache' = cache
            /\ faults' = faults
       ELSE /\ \E k \in r.todo, ok \in Oks :
                 /\ faults' = Spent(ok)
                 /\ cache' = IF ok THEN [x \in DOMAIN cache \ {k} |-> cache[x]]
                             ELSE cache
                 /\ req' = [req EXCEPT ![c] =
                             [r EXCEPT !.todo = r.todo \ {k},
                                       !.faulted = r.faulted \/ ~ok]]
            /\ acked' = acked
    /\ UNCHANGED <<rows, serial, errs, calcVars, platVars>>

\* cache.go:26  a key set with a time to live expires.
Expire ==
    /\ \E k \in DOMAIN cache :
         cache' = [x \in DOMAIN cache \ {k} |-> cache[x]]
    /\ UNCHANGED <<rows, serial, errs, req, acked, faults, calcVars, platVars>>

Service(c) ==
    \/ CurrentVersion(c)
    \/ CacheGet(c)
    \/ GetAllActive(c)
    \/ CacheSet(c)
    \/ Insert(c)
    \/ Scan(c)
    \/ Del(c)

\* The sequences a caller of the service replaces the sizes with.
SvcInputs == {<<1>>, <<2, 1>>}

\* A client calls GetActiveSizes.
CallGetActiveSizes(c) ==
    /\ Free(c)
    /\ req' = [req EXCEPT ![c] = BeginGet([NoReq EXCEPT !.kind = "GetActiveSizes"])]
    /\ UNCHANGED <<rows, serial, cache, errs, acked, faults, calcVars, platVars>>

\* A client calls ReplaceActive.
CallReplaceActive(c) ==
    /\ Free(c)
    /\ serial + Pending < MaxVersions
    /\ \E sizes \in SvcInputs :
         req' = [req EXCEPT ![c] =
                  BeginReplace([NoReq EXCEPT !.kind = "ReplaceActive", !.arg = sizes],
                               sizes)]
    /\ UNCHANGED <<rows, serial, cache, errs, acked, faults, calcVars, platVars>>

InitCache ==
    /\ CalcIdle
    /\ PlatIdle
    /\ rows = <<>> /\ serial = 0
    /\ Quiet
    /\ faults = MaxFaults

NextCache ==
    \/ Expire
    \/ \E c \in Clients :
           \/ CallGetActiveSizes(c)
           \/ CallReplaceActive(c)
           \/ Service(c)
           \/ Close(c)

SpecCache == InitCache /\ [][NextCache]_vars

----------------------------------------------------------------------------
\* The HTTP handlers (adapters/http/handlers.go) over the packs service and
\* the calculator, with the shared error values they answer with
\* (adapters/http/errors.go).

\* handlers.go:147  const maxPackSize = 10_000
maxPackSize == 10000

\* handlers.go:199  const maxAmount = 1_000_000
maxAmount == 1000000

\* main.go:87-90  cfg.Environment == "development": false unless configured.
development == FALSE

\* The most operations of the database and the cache that fail while the
\* handlers are served.
ApiFaults == 1

\* The longest sizes list of a PUT /packs body and of a POST /calculate body.
ApiMaxLen == 2
CalcMaxLen == 1

\* The sizes and amounts of request bodies: at and next to each limit.
ApiValues == {0, 1, maxPackSize, maxPackSize + 1}
Amounts == {0, 1, maxAmount, maxAmount + 1}

\* The {size} parameters of DELETE /packs/{size}.
Params == {"", "x", "0", "1", "2", "10000"}

\* handlers.go:93  strconv.Atoi: the value of a decimal numeral, an error
\* for any other string.
Atoi(str) ==
    LET numerals == ("0" :> 0) @@ ("1" :> 1) @@ ("2" :> 2) @@ ("10000" :> 10000)
    IN IF str \in DOMAIN numerals
       THEN [err |-> FALSE, val |-> numerals[str]]
       ELSE [err |-> TRUE, val |-> 0]

\* handlers.go:149  if s <= 0
TooSmall(s) == s <= 0

\* Mutant of TooLarge: no upper limit.
TooLargeNever(s) == FALSE

\* handlers.go:157  if s > maxPackSize
TooLarge(s) == s > maxPackSize

\* handlers.go:148-165  the index (from 1) of the first size the loop
\* rejects, 0 when it rejects none.
FirstRejected(sizes) ==
    LET bad == {i \in 1..Len(sizes) : TooSmall(sizes[i]) \/ TooLarge(sizes[i])}
    IN IF bad = {} THEN 0 ELSE Min(bad)

\* handlers.go:192  if req.Amount <= 0
AmountTooSmall(a) == a <= 0

\* Mutant of AmountTooLarge: no upper limit.
AmountTooLargeNever(a) == FALSE

\* handlers.go:200  if req.Amount > maxAmount
AmountTooLarge(a) == a > maxAmount

\* Mutant of NoSizes: the check for an empty size list left out.
NoSizesNever(sizes) == FALSE

\* handlers.go:207, 217  len(sizes) == 0
NoSizes(sizes) == Len(sizes) = 0

\* Mutant of Without: nothing is filtered out.
WithoutNothing(curr, val) == curr

\* Mutant of Without: the last remaining size is kept.
WithoutTheLast(curr, val) ==
    IF Len(curr) <= 1 THEN curr ELSE SelectSeq(curr, LAMBDA x : x # val)

\* handlers.go:107-112  next: the sizes of curr other than val.
Without(curr, val) == SelectSeq(curr, LAMBDA x : x # val)

\* Mutant of SameLength: the sizes are always replaced.
SameLengthNever(next, curr) == FALSE

\* handlers.go:115  if len(next) == len(curr)
SameLength(next, curr) == Len(next) = Len(curr)

\* service.go:37-56  Compute, called with amount > 0 and a non-empty
\* sequence, panics when no size is positive (Ceiling above).
ComputePanics(a, sizes) == a > 0 /\ Len(sizes) > 0 /\ Positive(sizes) = {}

\* errors.go:69-75  the StatusCode of a shared APIError.
StatusCode(e) == IF e \in {"INVALID_INPUT", "VALIDATION_FAILED"} THEN 400 ELSE 500

\* The keys one request sets on the APIError e: those of its handler, with
\* stack_trace for a 5xx in development (errors.go:120-123, 148-151).
Own(e, set) ==
    set \cup (IF development /\ StatusCode(e) >= 500 THEN {"stack_trace"} ELSE {})

\* Mutant of Details: each response starts from an empty Details map.
DetailsFresh(e, set) == Own(e, set)

\* errors.go:45-51  WithDetails writes into the Details map of the shared
\* APIError, which is never cleared: the keys it holds once this request
\* has set its own.
Details(e, set) == errs[e] \cup Own(e, set)

\* errors.go:159-166  writeErrorResponse: the APIError e is encoded, with
\* all of its Details.
Fail(r, e, set, reason) ==
    [r EXCEPT !.pc = "done", !.hpc = "",
              !.resp = [status |-> StatusCode(e), code |-> e, reason |-> reason,
                        keys |-> Details(e, set), own |-> Own(e, set),
                        sizes |-> <<>>]]

\* handlers.go:251-255  writeJSON(w, http.StatusOK, ...)
Ok(r, sizes) ==
    [r EXCEPT !.pc = "done", !.hpc = "",
              !.resp = [status |-> 200, code |-> "", reason |-> "", keys |-> {},
                        own |-> {}, sizes |-> sizes]]

\* The handler's goroutine panics: net/http recovers, logs and closes the
\* connection; no response is written.
Panic(r) ==
    [r EXCEPT !.pc = "done", !.hpc = "",
              !.resp = [status |-> 0, code |-> "panic", reason |-> "", keys |-> {},
                        own |-> {}, sizes |-> <<>>]]

\* Client c's request goes on as r2 and nothing shared is written.
Goes(c, r2) ==
    /\ req' = [req EXCEPT ![c] = r2]
    /\ errs' = errs

\* Client c's request is answered with the shared APIError e.
Fails(c, r, e, set, reason) ==
    /\ req' = [req EXCEPT ![c] = Fail(r, e, set, reason)]
    /\ errs' = [errs EXCEPT ![e] = Details(e, set)]

\* handlers.go:72-73  GET /packs
GetPacks(c) ==
    /\ Free(c)
    /\ Goes(c, BeginGet([NoReq EXCEPT !.kind = "getPacks", !.hpc = "sizes",
                                      !.before = rows]))
    /\ UNCHANGED <<rows, serial, cache, acked, faults, calcVars, platVars>>

\* handlers.go:74-78
GetPacksEnd(c) ==
    LET r == req[c] IN
    /\ r.kind = "getPacks" /\ r.hpc = "sizes" /\ r.pc = "svcdone"
    /\ IF r.err
       THEN Fails(c, r, "DATABASE_ERROR", {"operation"}, "")
       ELSE Goes(c, Ok(r, r.out))
    /\ UNCHANGED <<rows, serial, cache, acked, faults, calcVars, platVars>>

\* handlers.go:84-100  DELETE /packs/{size}: the parameter is checked and
\* the current sizes are asked for.  No more than cap rows are inserted.
DeletePackWithin(c, cap) ==
    /\ Free(c)
    /\ serial + Pending < cap
    /\ \E param \in Params :
         LET r == [NoReq EXCEPT !.kind = "deletePack", !.param = param,
                                !.before = rows]
         IN IF param = ""
            THEN Fails(c, r, "INVALID_INPUT", {"field", "reason"},
                       "size parameter is required")
            ELSE IF Atoi(param).err \/ Atoi(param).val <= 0
            THEN Fails(c, r, "VALIDATION_FAILED", {"field", "value", "reason"},
                       "must be a positive integer")
            ELSE Goes(c, BeginGet([r EXCEPT !.hpc = "curr"]))
    /\ UNCHANGED <<rows, serial, cache, acked, faults, calcVars, platVars>>

DeletePack(c) == DeletePackWithin(c, MaxVersions)

\* handlers.go:100-120  with curr: next is filtered; when nothing was
\* filtered out curr is the answer, otherwise next replaces the sizes.
DeletePackFilter(c) ==
    LET r == req[c]
        val == Atoi(r.param).val
        next == Without(r.out, val)
    IN
    /\ r.kind = "deletePack" /\ r.hpc = "curr" /\ r.pc = "svcdone"
    /\ IF r.err
       THEN Fails(c, r, "DATABASE_ERROR", {"operation"}, "")
       ELSE IF SameLength(next, r.out)
       THEN Goes(c, Ok([r EXCEPT !.curr = r.out, !.next = next], r.out))
       ELSE Goes(c, BeginReplace([r EXCEPT !.curr = r.out, !.next = next,
                                           !.hpc = "replace"], next))
    /\ UNCHANGED <<rows, serial, cache, acked, faults, calcVars, platVars>>

\* handlers.go:120-126
DeletePackEnd(c) ==
    LET r == req[c] IN
    /\ r.kind = "deletePack" /\ r.hpc = "replace" /\ r.pc = "svcdone"
    /\ IF r.err
       THEN Fails(c, r, "DATABASE_ERROR", {"operation"}, "")
       ELSE Goes(c, Ok(r, r.out))
    /\ UNCHANGED <<rows, serial, cache, acked, faults, calcVars, platVars>>

\* handlers.go:137-167  PUT /packs: the body is decoded, each size is
\* checked, and the sizes replace the active ones.
PutPacks(c) ==
    /\ Free(c)
    /\ serial + Pending < MaxVersions
    /\ \E json \in BOOLEAN, sizes \in SeqsOver(ApiValues, ApiMaxLen) :
         LET r == [NoReq EXCEPT !.kind = "putPacks", !.json = json,
                                !.arg = IF json THEN sizes ELSE <<>>,
                                !.before = rows]
             i == FirstRejected(sizes)
         IN IF ~json
            THEN /\ sizes = <<>>
                 /\ Fails(c, r, "INVALID_INPUT", {"field", "reason"},
                          "invalid JSON format")
            ELSE IF i # 0
            THEN Fails(c, r, "VALIDATION_FAILED",
                       {"field", "index", "value", "reason"},
                       IF TooSmall(sizes[i]) THEN "pack sizes must be positive"
                       ELSE "pack sizes cannot exceed 10,000 items")
            ELSE Goes(c, BeginReplace([r EXCEPT !.hpc = "replace"], sizes))
    /\ UNCHANGED <<rows, serial, cache, acked, faults, calcVars, platVars>>

\* handlers.go:167-172
PutPacksEnd(c) ==
    LET r == req[c] IN
    /\ r.kind = "putPacks" /\ r.hpc = "replace" /\ r.pc = "svcdone"
    /\ IF r.err
       THEN Fails(c, r, "DATABASE_ERROR", {"operation"}, "")
       ELSE Goes(c, Ok(r, r.out))
    /\ UNCHANGED <<rows, serial, cache, acked, faults, calcVars, platVars>>

\* handlers.go:216-245  with the sizes to use: none is an error, otherwise
\* the calculator is called.  Service.Compute returns no error (line 153), so
\* line 224 never answers CALCULATION_ERROR; the 200 carries the result.
Calculate(c, r, sizes) ==
    IF NoSizes(sizes)
    THEN Fails(c, r, "VALIDATION_FAILED", {"field", "reason"},
               "no pack sizes configured")
    ELSE LET r2 == [r EXCEPT !.calc = Append(r.calc, [amount |-> r.amount,
                                                       sizes |-> sizes])]
         IN Goes(c, IF ComputePanics(r.amount, sizes) THEN Panic(r2)
                    ELSE Ok(r2, <<>>))

\* handlers.go:184-214  POST /calculate: the body is decoded, the amount is
\* checked, and the sizes of the body are used unless there are none.
PostCalculate(c) ==
    /\ Free(c)
    /\ \E json \in BOOLEAN, a \in Amounts, sizes \in SeqsOver(ApiValues, CalcMaxLen) :
         LET r == [NoReq EXCEPT !.kind = "postCalculate", !.json = json,
                                !.amount = IF json THEN a ELSE 0,
                                !.arg = IF json THEN sizes ELSE <<>>,
                                !.before = rows]
         IN IF ~json
            THEN /\ a = 0 /\ sizes = <<>>
                 /\ Fails(c, r, "INVALID_INPUT", {"field", "reason"},
                          "invalid JSON format")
            ELSE IF AmountTooSmall(a)
            THEN Fails(c, r, "VALIDATION_FAILED", {"field", "value", "reason"},
                       "amount must be positive")
            ELSE IF AmountTooLarge(a)
            THEN Fails(c, r, "VALIDATION_FAILED", {"field", "value", "reason"},
                       "amount cannot exceed 1,000,000 items")
            ELSE IF NoSizes(sizes)
            THEN Goes(c, BeginGet([r EXCEPT !.hpc = "sizes"]))
            ELSE Calculate(c, r, sizes)
    /\ UNCHANGED <<rows, serial, cache, acked, faults, calcVars, platVars>>

\* handlers.go:208-214  with the active sizes.
PostCalculateSizes(c) ==
    LET r == req[c] IN
    /\ r.kind = "postCalculate" /\ r.hpc = "sizes" /\ r.pc = "svcdone"
    /\ IF r.err
       THEN Fails(c, r, "DATABASE_ERROR", {"operation"}, "")
       ELSE Calculate(c, r, r.out)
    /\ UNCHANGED <<rows, serial, cache, acked, faults, calcVars, platVars>>

Handler(c) ==
    \/ GetPacks(c)
    \/ GetPacksEnd(c)
    \/ DeletePack(c)
    \/ DeletePackFilter(c)
    \/ DeletePackEnd(c)
    \/ PutPacks(c)
    \/ PutPacksEnd(c)
    \/ PostCalculate(c)
    \/ PostCalculateSizes(c)

\* README.md:74  the migration seeds initial pack sizes (here two of them).
Seed == <<1, maxPackSize>>

\* The service starts on an empty table or on the seeded one; requests come
\* one after the other.
InitApi ==
    /\ CalcIdle
    /\ PlatIdle
    /\ \/ rows = <<>> /\ serial = 0
       \/ rows = <<[version |-> 1, sizes |-> Seed, given |-> Seed]>> /\ serial = 1
    /\ Quiet
    /\ faults \in 0..ApiFaults

NextApi ==
    \/ Expire
    \/ Handler(1)
    \/ Service(1)
    \/ Close(1)

SpecApi == InitApi /\ [][NextApi]_vars

\* Two clients send DELETE /packs/{size} requests at the same time: net/http
\* serves each request on a goroutine of its own and the handler takes no
\* lock (handlers.go:84-127), so the steps of the two requests interleave.
\* The table starts seeded and every operation succeeds.
ConcVersions == 3

InitDelete ==
    /\ CalcIdle
    /\ PlatIdle
    /\ rows = <<[version |-> 1, sizes |-> Seed, given |-> Seed]>> /\ serial = 1
    /\ Quiet
    /\ faults = 0

NextDelete ==
    \/ Expire
    \/ \E c \in Clients :
           \/ DeletePackWithin(c, ConcVersions)
           \/ DeletePackFilter(c)
           \/ DeletePackEnd(c)
           \/ Service(c)
           \/ Close(c)

SpecDelete == InitDelete /\ [][NextDelete]_vars

----------------------------------------------------------------------------
\* The circuit breaker under a caller that calls Execute again and again.

InitBreaker ==
    /\ CalcIdle
    /\ StoreIdle
    /\ \E maxFailures \in 0..MaxThreshold, resetTimeout \in 0..MaxTimeout :
           cb = NewCircuitBreaker(maxFailures, resetTimeout)
    /\ now = 0
    /\ exec = NoExec
    /\ retry = NoRetry

NextBreaker ==
    \/ Execute
    \/ FnReturns
    \/ Tick

SpecBreaker == InitBreaker /\ [][NextBreaker]_vars

\* One call of ConnectPostgresWithRetry (recovery.go:190-194) with a new
\* breaker, under every retry configuration.
InitRetry ==
    /\ CalcIdle
    /\ StoreIdle
    /\ \E maxFailures \in 0..MaxThreshold, resetTimeout \in 0..MaxTimeout :
           cb = NewCircuitBreaker(maxFailures, resetTimeout)
    /\ now = 0
    /\ exec = NoExec
    /\ \E attempts \in (0 - 1)..MaxTries, initial \in 0..MaxInitialDelay,
          longest \in 1..MaxMaxDelay :
           retry = [NoRetry EXCEPT !.pc = "loop", !.MaxAttempts = attempts,
                                   !.delay = initial, !.MaxDelay = longest]

NextRetry ==
    \/ RetryLoop
    \/ Connect
    \/ RetryAfter
    \/ RetrySelect
    \/ Tick

SpecRetry == InitRetry /\ [][NextRetry]_vars

----------------------------------------------------------------------------
\* Sequential calls.

Init ==
    /\ amount \in (0 - 1)..MaxAmount
    /\ raw \in SeqsOver((0 - 1)..MaxSize, MaxLen)
    /\ fresh = <<>>
    /\ heap = [a \in 1..2 |-> IF a = 1 THEN raw ELSE <<>>]
    /\ call = [p \in Procs |-> IF p = 1 THEN Entered(1, Len(raw), raw) ELSE Idle]
    /\ StoreIdle
    /\ PlatIdle

Next ==
    \/ CallAgain
    \/ CallCopy
    \/ CallNormalForm
    \/ \E p \in Procs : Step(p)

Spec == Init /\ [][Next]_vars

\* Calls 1 and 2 run concurrently on the same slice; call 3 follows on a
\* slice of its own.  The two goroutines race on the backing array.  Each
\* step above is atomic: an element read (RangeSizes), an element write
\* (AppendUnique), a compare-and-swap of the sort, a table cell with its
\* reads of the sizes.  The interleavings at this grain are a subset of
\* those of the single loads and stores, so every behaviour of SpecConc is
\* one the race allows.
InitConc ==
    /\ amount \in 1..ConcMaxAmount
    /\ raw \in SeqsOver(0..ConcMaxSize, ConcMaxLen)
    /\ fresh = <<>>
    /\ heap = [a \in 1..2 |-> IF a = 1 THEN raw ELSE <<>>]
    /\ call = [p \in Procs |-> IF p = 3 THEN Idle ELSE Entered(1, Len(raw), raw)]
    /\ StoreIdle
    /\ PlatIdle

NextConc ==
    \/ CallCopy
    \/ CallNormalForm
    \/ \E p \in Procs : Step(p)

SpecConc == InitConc /\ [][NextConc]_vars

----------------------------------------------------------------------------
\* What the properties speak of.

Returned(p) == call[p].pc = "done"
Panicked(p) == call[p].pc = "panic"

\* How call p ended and what it returned.
Outcome(p) == [ended |-> call[p].pc, res |-> call[p].res]

\* The sanitized size set of call p: the positive values it was given.
Sanitized(p) == Positive(call[p].given)

Max(S) == CHOOSE x \in S : \A y \in S : x >= y

\* The totals <= cap that exactly k packs with sizes in S sum to.
RECURSIVE SumsWith(_, _, _)
SumsWith(S, k, cap) ==
    IF k = 0 THEN {0}
    ELSE {x + s : x \in SumsWith(S, k - 1, cap), s \in S} \cap 0..cap

\* t is an exact sum of a multiset of S (sizes are >= 1: at most t packs).
Achievable(S, t) == \E k \in 0..t : t \in SumsWith(S, k, t)

\* The sum over a breakdown of size x count.
RECURSIVE Weight(_)
Weight(counts) ==
    IF DOMAIN counts = {} THEN 0
    ELSE LET s == Min(DOMAIN counts)
         IN s * counts[s] + Weight([x \in DOMAIN counts \ {s} |-> counts[x]])

\* A call with work to do: a positive amount and a positive size.
HasWork(p) == amount > 0 /\ Sanitized(p) # {}

----------------------------------------------------------------------------
\* C1  Rule 2 (overage-minimal): a call given amount > 0 and at least one
\* positive size returns, and its TotalItems is the smallest t >= amount
\* that is an exact sum of a multiset of the positive sizes.
Rule2OverageMinimal ==
    \A p \in Procs :
        Ended(p) /\ HasWork(p) =>
            /\ Returned(p)
            /\ call[p].res.TotalItems >= amount
            /\ Achievable(Sanitized(p), call[p].res.TotalItems)
            /\ \A t \in amount..(call[p].res.TotalItems - 1) :
                   ~Achievable(Sanitized(p), t)

\* A call returned an overage although larger totals had fewer packs to
\* offer: two sizes, amount not achievable, TotalItems above the amount.
Rule2Witness ==
    /\ Returned(1) /\ HasWork(1)
    /\ Cardinality(Sanitized(1)) >= 2
    /\ call[1].res.TotalItems > amount
    /\ call[1].res.TotalItems < amount + Max(Sanitized(1)) - 1

\* C2  Rule 3 (pack-minimal given Rule 2): no multiset of the positive sizes
\* that sums to TotalItems has fewer packs than TotalPacks.
Rule3PackMinimal ==
    \A p \in Procs :
        Ended(p) /\ HasWork(p) =>
            /\ Returned(p)
            /\ call[p].res.TotalItems \in
                   SumsWith(Sanitized(p), call[p].res.TotalPacks, call[p].res.TotalItems)
            /\ \A k \in 0..(call[p].res.TotalPacks - 1) :
                   call[p].res.TotalItems \notin
                       SumsWith(Sanitized(p), k, call[p].res.TotalItems)

\* A call returned a total that more packs would also have summed to.
Rule3Witness ==
    /\ Returned(1) /\ HasWork(1)
    /\ \E k \in (call[1].res.TotalPacks + 1)..call[1].res.TotalItems :
           call[1].res.TotalItems \in
               SumsWith(Sanitized(1), k, call[1].res.TotalItems)

\* C3  Feasibility: a call given amount > 0 and at least one positive size
\* returns TotalItems >= amount and TotalPacks >= 1, within the window
\* amount..amount+maxSize-1; no call ever returns through the 'no solution
\* found' branch (bestT == -1).
Feasibility ==
    \A p \in Procs :
        /\ call[p].exit # "nosolution"
        /\ Ended(p) /\ HasWork(p) =>
               /\ Returned(p)
               /\ call[p].exit = "return"
               /\ call[p].bestT # 0 - 1
               /\ call[p].res.TotalItems >= amount
               /\ call[p].res.TotalItems <= amount + Max(Sanitized(p)) - 1
               /\ call[p].res.TotalPacks >= 1

\* A call had to go to the last cell of the window.
FeasibilityWitness ==
    /\ Returned(1) /\ HasWork(1)
    /\ call[1].res.TotalItems > amount
    /\ call[1].res.TotalItems = amount + Max(Sanitized(1)) - 1

\* C4  Exactness: in every Result a call returns, the breakdown's sum of
\* size x count is TotalItems, every count is positive and every key is a
\* sanitized pack size.
Exactness ==
    \A p \in Procs :
        Returned(p) =>
            /\ Weight(call[p].res.Counts) = call[p].res.TotalItems
            /\ \A s \in DOMAIN call[p].res.Counts : call[p].res.Counts[s] >= 1
            /\ DOMAIN call[p].res.Counts \subseteq Sanitized(p)

\* A Result whose breakdown takes one size several times and sums to more
\* than the amount.
ExactnessWitness ==
    /\ Returned(1)
    /\ call[1].res.TotalItems > amount
    /\ \E s \in DOMAIN call[1].res.Counts : call[1].res.Counts[s] >= 2

\* C5  Degeneracy: a call given amount <= 0, or no positive size (an empty
\* sequence, or one of non-positive values only), returns the zero Result
\* and does not fail.
Degeneracy ==
    \A p \in Procs :
        Ended(p) /\ ~HasWork(p) =>
            /\ Returned(p)
            /\ call[p].res = ZeroResult

\* C6  Sanitizer equivalence: two calls whose sequences have the same set
\* of positive values end the same way with the same Result.
SanitizerEquivalence ==
    \A p, q \in Procs :
        Ended(p) /\ Ended(q) /\ Sanitized(p) = Sanitized(q) =>
            Outcome(p) = Outcome(q)

\* C7  Determinism: two calls given identical sequences end the same way
\* with the same Result, whatever order the map was iterated in, and so
\* does the second call given the very slice the first call was given.
Determinism ==
    /\ Ended(1) /\ Ended(2) => Outcome(1) = Outcome(2)
    /\ \A p, q \in Procs :
           Ended(p) /\ Ended(q) /\ call[p].given = call[q].given =>
               Outcome(p) = Outcome(q)

\* The three calls returned, call 3 on a copy of the original sequence,
\* call 2 on the slice as call 1 left it (not as it was), and the map held
\* several keys (several iteration orders).
DeterminismWitness ==
    /\ Returned(1) /\ Returned(2) /\ Returned(3)
    /\ fresh = raw
    /\ call[2].given # call[1].given
    /\ Cardinality(Sanitized(1)) >= 2
    /\ call[1].res.TotalPacks >= 2

\* C8  Concurrent independence: each of two calls running concurrently on
\* the same slice ends as a call running alone on that sequence does (call 3
\* on its own copy of the original sequence).
ConcurrentIndependence ==
    Ended(1) /\ Ended(2) /\ Ended(3) /\ fresh = raw =>
        /\ Outcome(1) = Outcome(3)
        /\ Outcome(2) = Outcome(3)

\* C9  Purity (frame): when a call has ended, every element of the slice it
\* was given holds the value it held when the call began.
CallerSliceUnchanged ==
    \A p \in Procs :
        Ended(p) => SubSeq(heap[call[p].arr], 1, call[p].n) = call[p].given

\* C11  Service.Compute: every call of the wrapper returns, with a nil
\* error, the requested amount in Amount and Overage = TotalItems - amount;
\* given amount > 0 and at least one positive size, Overage >= 0.
ServiceComputeContract ==
    \A p \in Procs :
        /\ Ended(p) =>
               /\ Len(call[p].reply) = 1
               /\ call[p].reply[1].err = "nil"
               /\ call[p].reply[1].Amount = amount
               /\ call[p].reply[1].TotalItems = call[p].res.TotalItems
               /\ call[p].reply[1].Overage = call[p].reply[1].TotalItems - amount
        /\ Ended(p) /\ HasWork(p) =>
               /\ Len(call[p].reply) = 1
               /\ call[p].reply[1].Overage >= 0

\* The least number of packs with sizes in S that sum to t (t achievable).
MinPacks(S, t) == Min({k \in 0..t : t \in SumsWith(S, k, t)})

\* C20  Table Builder: when the table is built, its cells are
\* 0..amount+maxSize-1; dp[t] is the least number of packs of the sanitized
\* sizes that sum to t, and inf exactly when no multiset sums to t; dp[0] = 0.
TableBuilderCorrect ==
    \A p \in Procs :
        call[p].pc = "select" =>
            LET S == Sanitized(p)
                dp == call[p].dp
            IN /\ DOMAIN dp = 0..(amount + Max(S) - 1)
               /\ dp[0] = 0
               /\ \A t \in DOMAIN dp :
                      /\ dp[t] = inf <=> ~Achievable(S, t)
                      /\ Achievable(S, t) => dp[t] = MinPacks(S, t)

\* A built table of two sizes with a cell no multiset sums to, a cell that
\* takes several packs, and a cell that both sizes lead to.
TableBuilderWitness ==
    /\ call[1].pc = "select"
    /\ Cardinality(Sanitized(1)) >= 2
    /\ \E t \in DOMAIN call[1].dp : t > 0 /\ call[1].dp[t] = inf
    /\ \E t \in DOMAIN call[1].dp : call[1].dp[t] # inf /\ call[1].dp[t] >= 2
    /\ \E t \in DOMAIN call[1].dp :
           \A s \in Sanitized(1) : t >= s /\ call[1].dp[t - s] # inf

\* C19  Versioned append-only storage: a successful repository
\* ReplaceActive leaves the table as it was with exactly one more row, whose
\* version is greater than every existing version; GetAllActive returns the
\* sorted, de-duplicated, positive sizes that the most recent successful
\* ReplaceActive was given (nothing when there was none).
VersionedAppendOnly ==
    \A c \in Clients :
        LET r == req[c] IN
        /\ r.kind = "repo.ReplaceActive" /\ ~r.err =>
               /\ Len(rows) = Len(r.before) + 1
               /\ SubSeq(rows, 1, Len(r.before)) = r.before
               /\ \A i \in 1..Len(r.before) :
                      r.before[i].version < rows[Len(rows)].version
        /\ r.kind = "repo.GetAllActive" /\ ~r.err =>
               r.out = IF rows = <<>> THEN <<>>
                       ELSE rows[Len(rows)].given

\* C18  Cache invalidation on update: a GetActiveSizes call that began after
\* a ReplaceActive had returned successfully, and that returns successfully,
\* returns the normalized sizes of that ReplaceActive or of a later one
\* (a row whose version is not below the one that ReplaceActive inserted).
CacheInvalidation ==
    \A c \in Clients :
        LET r == req[c] IN
        /\ r.op = "GetActiveSizes"
        /\ r.pc \in {"done", "svcdone"}
        /\ ~r.err
        /\ r.floor > 0
        => \E i \in 1..Len(rows) :
               /\ rows[i].version >= r.floor
               /\ r.out = rows[i].given

----------------------------------------------------------------------------
\* What the properties of the handlers speak of.

\* Client c's request of kind k has been answered.
Answered(c, k) == req[c].kind = k /\ req[c].pc = "done"

\* The active pack sizes of a table: what the repository reads from it.
ActiveOf(table) == GetAllActiveOf(table)

\* The size a DELETE /packs/{size} names, 0 when it names none.
Named(c) == IF Atoi(req[c].param).err THEN 0 ELSE Atoi(req[c].param).val

\* C12  Caller-side size validation: every sequence POST /calculate passes
\* to the calculator is non-empty and each of its elements is within
\* 1..10,000, whether it came with the request or from the stored sizes.
CallerSideValidation ==
    \A c \in Clients :
        \A i \in 1..Len(req[c].calc) :
            LET sizes == req[c].calc[i].sizes
            IN /\ Len(sizes) > 0
               /\ \A j \in 1..Len(sizes) : sizes[j] >= 1 /\ sizes[j] <= maxPackSize

\* C13  POST /calculate answers 400 VALIDATION_FAILED, does not call the
\* calculator and leaves the table as it was when the amount is <= 0, when
\* it is > 1,000,000, and when the body has no sizes while the active set is
\* empty (reason 'no pack sizes configured'; the request's database and
\* cache operations succeeding).
PostCalculateRejects ==
    \A c \in Clients :
        LET r == req[c] IN
        /\ Answered(c, "postCalculate") /\ r.json
               /\ (r.amount <= 0 \/ r.amount > maxAmount) =>
               /\ r.resp.status = 400
               /\ r.resp.code = "VALIDATION_FAILED"
               /\ r.calc = <<>>
               /\ r.op = ""
               /\ rows = r.before
        /\ Answered(c, "postCalculate") /\ r.json /\ ~r.faulted
               /\ r.amount >= 1 /\ r.amount <= maxAmount
               /\ r.arg = <<>> /\ ActiveOf(r.before) = <<>> =>
               /\ r.resp.status = 400
               /\ r.resp.code = "VALIDATION_FAILED"
               /\ r.resp.reason = "no pack sizes configured"
               /\ r.calc = <<>>
               /\ rows = r.before

\* A request without sizes was rejected after the active set had been
\* emptied.
PostCalculateRejectsWitness ==
    /\ Answered(1, "postCalculate")
    /\ req[1].arg = <<>>
    /\ req[1].resp.reason = "no pack sizes configured"
    /\ Len(req[1].before) > 0
    /\ ActiveOf(req[1].before) = <<>>

\* A request with sizes was rejected for an amount above the limit.
AmountRejectedWitness ==
    /\ Answered(1, "postCalculate")
    /\ req[1].amount > maxAmount
    /\ req[1].arg # <<>>
    /\ req[1].resp.status = 400

\* C14  PUT /packs with a size <= 0 or > 10,000 in its body answers 400,
\* does not call ReplaceActive and leaves the table (the active set and its
\* version) as it was, also when other sizes in the body are valid.
PutPacksRejects ==
    \A c \in Clients :
        LET r == req[c] IN
        /\ Answered(c, "putPacks") /\ r.json
        /\ \E i \in 1..Len(r.arg) : r.arg[i] <= 0 \/ r.arg[i] > maxPackSize
        => /\ r.resp.status = 400
           /\ r.op = ""
           /\ r.wrote = 0
           /\ rows = r.before
           /\ CurrentVersionOf(rows) = CurrentVersionOf(r.before)

\* A body with a valid size and one above the limit was rejected while
\* sizes were stored.
PutPacksRejectsWitness ==
    /\ Answered(1, "putPacks")
    /\ \E i, j \in 1..Len(req[1].arg) :
           /\ req[1].arg[i] >= 1 /\ req[1].arg[i] <= maxPackSize
           /\ req[1].arg[j] > maxPackSize
    /\ req[1].resp.status = 400
    /\ ActiveOf(req[1].before) # <<>>

DeleteAbsentChangesNothing ==
    \A c \in Clients :
        LET r == req[c] IN
        /\ Answered(c, "deletePack") /\ ~r.faulted
        /\ Named(c) > 0
        /\ Named(c) \notin Range(ActiveOf(r.before))
        => /\ r.resp.status = 200
           /\ r.resp.sizes = ActiveOf(r.before)
           /\ r.op # "ReplaceActive"
           /\ r.wrote = 0
           /\ rows = r.before

\* A size that is not stored was deleted while others were stored.
DeleteAbsentWitness ==
    /\ Answered(1, "deletePack")
    /\ Named(1) > 0
    /\ Named(1) \notin Range(ActiveOf(req[1].before))
    /\ Len(ActiveOf(req[1].before)) >= 1
    /\ req[1].resp.status = 200

----------------------------------------------------------------------------
\* C21  Reconstruction terminates: while the backtracking loop runs, the
\* iterations made plus dp[t] is dp[bestT] and a positive t has a positive
\* prev[t] <= t; the loop is left only with t = 0, after dp[bestT]
\* iterations, never through the break at s <= 0, and the TotalPacks it
\* returns (the sum of the counts) is dp[bestT].
ReconstructionTerminates ==
    [][\A p \in Procs :
          LET c == call[p] IN
          c.pc = "reconstruct" =>
              /\ c.dp[c.bestT] # inf
              /\ c.iters + c.dp[c.t] = c.dp[c.bestT]
              /\ c.t > 0 => c.prev[c.t] > 0 /\ c.prev[c.t] <= c.t
              /\ call'[p].pc # "reconstruct" =>
                     /\ c.t = 0
                     /\ c.iters = c.dp[c.bestT]
                     /\ call'[p].pc = "done"
                     /\ call'[p].exit = "return"
                     /\ call'[p].res.TotalPacks = c.dp[c.bestT]
                     /\ SumCounts(call'[p].res.Counts) = c.dp[c.bestT]]_vars

\* A call returned after several iterations that took two different sizes.
ReconstructionWitness ==
    /\ Returned(1) /\ call[1].exit = "return"
    /\ call[1].iters >= 2
    /\ Cardinality(DOMAIN call[1].res.Counts) >= 2
    /\ call[1].res.TotalPacks = call[1].iters

\* The sizes of S that lead to cell t with the fewest packs.
BestSizes(S, dp, t) ==
    {s \in S : t >= s /\ dp[t - s] # inf /\ dp[t - s] + 1 = dp[t]}

\* C22  Tie-break: when the table is built, for every reachable t >= 1
\* prev[t] is the smallest sanitized size s with t >= s, dp[t-s] reachable
\* and dp[t-s] + 1 = dp[t].
TieBreakSmallest ==
    \A p \in Procs :
        call[p].pc = "select" =>
            \A t \in DOMAIN call[p].dp :
                t >= 1 /\ call[p].dp[t] # inf =>
                    /\ BestSizes(Sanitized(p), call[p].dp, t) # {}
                    /\ call[p].prev[t] = Min(BestSizes(Sanitized(p), call[p].dp, t))

\* A built table with a cell that two sizes lead to with the same count.
TieBreakWitness ==
    /\ call[1].pc = "select"
    /\ \E t \in DOMAIN call[1].dp :
           /\ t >= 1 /\ call[1].dp[t] # inf
           /\ Cardinality(BestSizes(Sanitized(1), call[1].dp, t)) >= 2

\* C23  Overage bound: a call given amount > 0 and at least one positive
\* size returns a TotalItems whose overage TotalItems - amount is >= 0 and
\* less than the smallest sanitized size.
OverageBelowSmallest ==
    \A p \in Procs :
        Ended(p) /\ HasWork(p) =>
            /\ Returned(p)
            /\ call[p].res.TotalItems - amount >= 0
            /\ call[p].res.TotalItems - amount < Min(Sanitized(p))

\* A call returned an overage one below its smallest size, with a larger
\* size at hand.
OverageWitness ==
    /\ Returned(1) /\ HasWork(1)
    /\ Cardinality(Sanitized(1)) >= 2
    /\ Min(Sanitized(1)) >= 2
    /\ call[1].res.TotalItems - amount = Min(Sanitized(1)) - 1

----------------------------------------------------------------------------
\* C24  Error responses do not leak across requests: every error response
\* carries exactly the detail keys its handler set for this request,
\* whatever requests failed before it; a 'no pack sizes configured' error
\* carries no 'value' and no 'index'.
ErrorDetailsOwn ==
    \A c \in Clients :
        LET r == req[c] IN
        r.pc = "done" /\ r.resp.status >= 400 =>
            /\ r.resp.keys = r.resp.own
            /\ r.resp.reason = "no pack sizes configured" =>
                   "value" \notin r.resp.keys /\ "index" \notin r.resp.keys

----------------------------------------------------------------------------
\* C25  No lost deletion: when two DELETE /packs/{size} requests for two
\* different sizes, each in the active set when its request began, have
\* both been answered 200, the active set holds neither of the two sizes,
\* however their reads and writes interleaved.
NoLostDeletion ==
    Answered(1, "deletePack") /\ Answered(2, "deletePack")
    /\ req[1].resp.status = 200 /\ req[2].resp.status = 200
    /\ Named(1) # Named(2)
    /\ Named(1) \in Range(ActiveOf(req[1].before))
    /\ Named(2) \in Range(ActiveOf(req[2].before))
    => /\ Named(1) \notin Range(ActiveOf(rows))
       /\ Named(2) \notin Range(ActiveOf(rows))

----------------------------------------------------------------------------
\* What the properties of the retries speak of.

\* The invocations of fn that have returned, and those that returned nil.
Invocations == Len(retry.results)
Succeeded == {k \in 1..Invocations : retry.results[k] = "nil"}

\* C26  RetryWithBackoff invokes fn at most MaxAttempts times; no
\* invocation follows one that returned nil, and nil is then returned
\* without a wait; when MaxAttempts invocations have all failed, the error
\* of the last one is returned and the select was reached MaxAttempts - 1
\* times (no wait after the final attempt).
RetryAtMostMaxAttempts ==
    /\ Invocations <= (IF retry.MaxAttempts > 0 THEN retry.MaxAttempts ELSE 0)
    /\ \A k \in Succeeded : k = Invocations /\ retry.pc \in {"after", "done"}
    /\ retry.pc = "done" /\ Succeeded # {} =>
           /\ retry.err = NoErr
           /\ retry.waits = Invocations - 1
    /\ retry.pc = "done" /\ Succeeded = {} /\ retry.MaxAttempts >= 1
           /\ Invocations = retry.MaxAttempts =>
           /\ retry.err = [kind |-> retry.results[Invocations], n |-> Invocations]
           /\ retry.waits = retry.MaxAttempts - 1

\* Three attempts failed, the last two in different ways.
RetryWitness ==
    /\ retry.pc = "done"
    /\ retry.MaxAttempts = 3
    /\ Invocations = 3
    /\ Succeeded = {}
    /\ retry.results[2] # retry.results[3]
    /\ retry.waits = 2

\* C27  RetryWithBackoff returns nil only if an invocation of fn returned
\* nil, whatever the RetryConfig, and ConnectPostgresWithRetry never
\* returns a nil pool with a nil error.
NilOnlyAfterSuccess ==
    retry.pc = "done" =>
        /\ retry.err.kind = "nil" => Succeeded # {}
        /\ ~(retry.ret.pool = FALSE /\ retry.ret.err.kind = "nil")

----------------------------------------------------------------------------
\* What the properties of the circuit breaker speak of.

\* The call of Execute in progress or the last one, once past updateState.
Called == exec.pc \in {"fn", "done"}

\* fn was invoked by that call.
Invoked == exec.ran # ""

\* C28  Open state: an Execute that finds the breaker Open with less than
\* resetTimeout elapsed since lastFailureTime returns the breaker's error
\* without invoking fn and leaves it Open; one that finds it Open with
\* resetTimeout elapsed makes it HalfOpen with successCount = 0 and invokes
\* fn.
OpenRejectsUntilTimeout ==
    /\ Called /\ exec.entry = "Open" /\ exec.at - exec.since < cb.resetTimeout =>
           /\ exec.pc = "done"
           /\ exec.err = "open"
           /\ ~Invoked
           /\ cb.state = "Open"
    /\ Called /\ exec.entry = "Open" /\ exec.at - exec.since >= cb.resetTimeout =>
           /\ Invoked
           /\ exec.ran = "HalfOpen"
           /\ exec.scRun = 0

\* After a positive resetTimeout an Execute found the breaker Open with
\* successes counted from an earlier HalfOpen, and invoked fn in HalfOpen.
OpenWitness ==
    /\ Called /\ exec.entry = "Open"
    /\ cb.resetTimeout >= 1
    /\ exec.scIn >= 1
    /\ exec.ran = "HalfOpen"

\* C29  Opening: with maxFailures >= 1, an Execute that finds the breaker
\* Closed returns the breaker's error (fn not invoked) only when the
\* maxFailures calls just before it all invoked fn and failed; a successful
\* call in Closed leaves failureCount = 0, and in Closed failureCount is the
\* number of failed calls since the last success.
OpensAfterConsecutiveFailures ==
    cb.maxFailures >= 1 =>
        /\ exec.pc = "done" /\ exec.entry = "Closed" /\ exec.err = "open" =>
               /\ ~Invoked
               /\ exec.streakIn >= cb.maxFailures
        /\ exec.pc = "done" /\ exec.ran = "Closed" /\ exec.err = "nil" =>
               cb.failureCount = 0
        /\ cb.state = "Closed" => cb.failureCount = exec.streak

\* With maxFailures = 2 the circuit opened after a success had come between
\* earlier failures.
OpeningWitness ==
    /\ cb.maxFailures = 2
    /\ exec.pc = "done" /\ exec.entry = "Closed" /\ exec.err = "open"
    /\ exec.streakIn = 2
    /\ exec.calls >= 5

\* C30  HalfOpen state: a failing call in HalfOpen leaves the breaker Open;
\* fn is invoked in HalfOpen at most halfOpenRequests (3) times since the
\* breaker became HalfOpen; the Execute that finds it HalfOpen with three
\* successes makes it Closed with failureCount = 0 and successCount = 0
\* before it invokes fn, and with fewer successes fn is invoked in HalfOpen.
HalfOpenTrials ==
    /\ exec.pc = "done" /\ exec.ran = "HalfOpen" /\ exec.err = "fn" =>
           cb.state = "Open"
    /\ exec.trials <= halfOpenRequests
    /\ Called /\ exec.entry = "HalfOpen" /\ exec.scIn >= halfOpenRequests =>
           /\ exec.scIn = halfOpenRequests
           /\ exec.ran = "Closed"
           /\ exec.fcRun = 0
           /\ exec.scRun = 0
    /\ Called /\ exec.entry = "HalfOpen" /\ exec.scIn < halfOpenRequests =>
           exec.ran = "HalfOpen"

\* The breaker closed after three successes although failures had been
\* counted.
HalfOpenWitness ==
    /\ exec.pc = "done"
    /\ exec.entry = "HalfOpen" /\ exec.scIn = halfOpenRequests
    /\ exec.ran = "Closed"
    /\ cb.maxFailures >= 1

====
